---- MODULE Spec2Model ----
(***************************************************************************)
(* The search agents of game_agent.py: a MinimaxPlayer (fixed-depth        *)
(* minimax) or an AlphaBetaPlayer (iterative deepening over alpha-beta),   *)
(* run as an explicit call stack so that every clock reading               *)
(* (self.time_left()) is a separate step whose value the environment       *)
(* chooses.                                                                *)
(* The score functions are applied on their own under ScoreSpec, and the   *)
(* tally of play_round (tournament_mp.py) is run under TournamentSpec.     *)
(***************************************************************************)
EXTENDS Integers, Sequences, FiniteSets, TLC

\* ------------------------------------------------------------- bounds
MaxDepth == 3          \* largest search_depth / depth argument explored
MaxCalls == 2          \* operations called on the agents in one behaviour

\* ---------------------------------------------------------- constants
TIMER_THRESHOLD == 10  \* IsolationPlayer.__init__(timeout=10.)
NegInf == -100         \* float("-inf")
PosInf == 100          \* float("inf")

NoMove == <<-1, -1>>   \* the sentinel (-1, -1)
Cells == {<<0, 2>>, <<1, 0>>, <<1, 1>>}
ClockReadings == {0, 10, 15}
Agents == {"MinimaxPlayer", "AlphaBetaPlayer"}
Helpers == {"_min_value", "_max_value"}

\* The score tables tried: every square worth the same, and squares of
\* different worth (in two arrangements).
WeightTables ==
    {[c \in Cells |-> 0],
     [c \in Cells |-> c[1] + c[2] - 1],
     [c \in Cells |-> 2 - c[2]]}

VARIABLES
    rootMoves,       \* game.get_legal_moves() of the board handed to the agent
    weights,         \* the table the injected score function reads
    agent,           \* the class of the player constructed
    search_depth,    \* self.search_depth
    timeout_depths,  \* self.timeout_depths
    calls,           \* operations started so far
    cur,             \* the operation in progress or last finished
    pc,              \* control position
    stack,           \* call stack: get_move, minimax/alphabeta, helpers
    ret,             \* in flight to the caller: <<score>>, a move, or <<>>
    outcome,         \* how the last operation ended
    obs,             \* observations of the operation in progress
    average,         \* what average_timeout_depth() last returned
    scoring,         \* a score function applied on its own to one state
    tournament       \* play_round: the loop over matches and its tallies

vars == <<rootMoves, weights, agent, search_depth, timeout_depths, calls, cur, pc,
          stack, ret, outcome, obs, average, scoring, tournament>>

\* What no step of an agent changes.
setting == <<rootMoves, weights, agent, scoring, tournament>>

\* ------------------------------------------------- sequences and order
Range(s) == {s[i] : i \in 1..Len(s)}

Last(s) == s[Len(s)]

Min2(a, b) == IF a < b THEN a ELSE b

Max2(a, b) == IF a > b THEN a ELSE b

\* Python's tuple comparison (a < b) on coordinate pairs.
TupleLess(a, b) == a[1] < b[1] \/ (a[1] = b[1] /\ a[2] < b[2])

RECURSIVE Insert(_, _)
Insert(x, s) ==
    IF s = <<>> THEN <<x>>
    ELSE IF TupleLess(x, Head(s)) THEN <<x>> \o s
    ELSE <<Head(s)>> \o Insert(x, Tail(s))

\* sorted(actions)
RECURSIVE sorted(_)
sorted(s) == IF s = <<>> THEN <<>> ELSE Insert(Head(s), sorted(Tail(s)))

IsAscending(s) == \A i \in 1..(Len(s) - 1) : TupleLess(s[i], s[i + 1])

RECURSIVE SeqsOver(_, _)
SeqsOver(S, n) ==
    IF n = 0 THEN {<<>>}
    ELSE LET shorter == SeqsOver(S, n - 1)
         IN  shorter \cup {Append(s, x) : s \in shorter, x \in S}

DistinctSeqs(S) ==
    {s \in SeqsOver(S, Cardinality(S)) : Cardinality(Range(s)) = Len(s)}

\* ------------------------------------------------------ the game board
\* A board is the sequence of moves applied to the board handed to the agent:
\* a visited square is blocked for both players from then on.
get_legal_moves(board) == SelectSeq(rootMoves, LAMBDA m : m \notin Range(board))

forecast_move(board, move) == Append(board, move)

\* The agent is the active player of the root board; the players alternate.
AgentToMove(board) == Len(board) % 2 = 0

RECURSIVE Material(_, _)
Material(board, i) ==
    IF i > Len(board) THEN 0
    ELSE (IF i % 2 = 1 THEN weights[board[i]] ELSE 0 - weights[board[i]])
         + Material(board, i + 1)

\* self.score(game, self): always for the agent, never for the node's mover.
score(board) ==
    IF get_legal_moves(board) = <<>>
    THEN IF AgentToMove(board) THEN NegInf ELSE PosInf
    ELSE Material(board, 1)

\* score(game, player): the same position seen by either player.
score_fn(board, player) ==
    IF player = "agent" THEN score(board) ELSE 0 - score(board)

\* The player whose turn it is at a node.
Mover(board) == IF AgentToMove(board) THEN "agent" ELSE "opponent"

\* ------------------------------------------------- the agents' checks
\* The second argument of self.score(game, self) in _min_value / _max_value.
ScoreForMover(board) == Mover(board)

ScorePlayer(board) == "agent"

\* self.timeout_depths.append(depth) in _terminal_test.
RecordsSearchDepth(depth) == search_depth

RecordedDepth(depth) == depth

\* self.search_depth = 0, the first statement in the try of
\* AlphaBetaPlayer.get_move.
KeepDepth == search_depth

StartDepth == 0

\* best_move = actions[randint(0, len(actions) - 1)], i being the number drawn.
NoDraw(actions, i) == NoMove

DrawMove(actions, i) == actions[i + 1]

\* self.time_left() < self.TIMER_THRESHOLD: the checkpoint of minimax,
\* alphabeta and _terminal_test.
TimedOutAtZero(t) == t < 0

TimedOutInverted(t) == t > TIMER_THRESHOLD

TimedOutInclusive(t) == t <= TIMER_THRESHOLD

TimedOut(t) == t < TIMER_THRESHOLD

\* while self.time_left() > self.TIMER_THRESHOLD: (AlphaBetaPlayer.get_move)
TimeRemainsInverted(t) == t < TIMER_THRESHOLD

TimeRemainsInclusive(t) == t >= TIMER_THRESHOLD

TimeRemains(t) == t > TIMER_THRESHOLD

\* The frames whose body sits in try: ... except SearchTimeout: pass.
\* alphabeta's try/except is commented out; neither helper has one.
CatchesInAlphabeta(fn) == fn \in {"get_move", "minimax", "alphabeta"}

CatchesOnlyInMinimax(fn) == fn = "minimax"

CatchesOnlyInGetMove(fn) == fn = "get_move"

Catches(fn) == fn \in {"get_move", "minimax"}

\* The value _terminal_test returns once its clock check has passed.
IsTerminalPastDepth(board, depth) ==
    depth > search_depth \/ Len(get_legal_moves(board)) = 0

IsTerminal(board, depth) ==
    LET beyond_search_depth == depth >= search_depth
        no_legal_moves == Len(get_legal_moves(board)) = 0
    IN  beyond_search_depth \/ no_legal_moves

\* ------------------------------------------------ average_timeout_depth
\* A quotient of two integers, kept exact: <<numerator, denominator>>.
\* <<0, 0>> stands for no value.
NoAverage == <<0, 0>>

\* sum(self.timeout_depths)
RECURSIVE sum(_)
sum(s) == IF s = <<>> THEN 0 ELSE Head(s) + sum(Tail(s))

\* IsolationPlayer.average_timeout_depth: Python's / is the true division.
FloorAverage ==
    IF Len(timeout_depths) > 0
    THEN <<sum(timeout_depths) \div Len(timeout_depths), 1>>
    ELSE <<-1, 1>>

average_timeout_depth ==
    IF Len(timeout_depths) > 0
    THEN <<sum(timeout_depths), Len(timeout_depths)>>
    ELSE <<-1, 1>>

\* alpha=float("-inf"), beta=float("inf"): the defaults of alphabeta, and the
\* windows a direct caller passes.
DefaultWindow == <<NegInf, PosInf>>

AlphaBetaWindows == {DefaultWindow, <<0, 1>>}

\* ---------------------------------------------------------- call stack
Frame(fn, board, depth, alpha, beta) ==
    [fn |-> fn, board |-> board, depth |-> depth, v |-> 0, alpha |-> alpha,
     beta |-> beta, todo |-> <<>>, best_move |-> NoMove, st |-> "call"]

Top == stack[Len(stack)]

Pop(s) == SubSeq(s, 1, Len(s) - 1)

ReplaceTop(s, f) == Append(Pop(s), f)

Callee(fn) == IF fn = "_max_value" THEN "_min_value" ELSE "_max_value"

SearchFn == IF agent = "MinimaxPlayer" THEN "minimax" ELSE "alphabeta"

\* What has been seen of the operation in progress:
\*   reads, below   clock readings taken, and how many were below the threshold
\*   gate           the last reading taken by the while condition of get_move
\*   signalled      SearchTimeout exceptions raised
\*   aborted        a SearchTimeout was raised inside the current invocation
\*   scoreCalls     calls of self.score
\*   queries        calls of get_legal_moves and forecast_move
\*   invoked        depth arguments of the alphabeta invocations of get_move
\*   completed      moves returned by the invocations that were not aborted
\*   draw           the number randint returned
\*   scored         root moves whose _min_value call has returned to the root
\*   players        <<player argument, node's mover>> of the self.score calls
\*   window         <<alpha, beta>> given to alphabeta
NoObs ==
    [reads |-> 0, below |-> 0, gate |-> -1, signalled |-> 0, aborted |-> FALSE,
     scoreCalls |-> 0, queries |-> 0, invoked |-> <<>>, completed |-> <<>>,
     draw |-> -1, scored |-> 0, players |-> {}, window |-> DefaultWindow]

NoOutcome == [status |-> "none", move |-> NoMove]

\* One more reading of the clock.
Read(o, t) ==
    [o EXCEPT !.reads = @ + 1, !.below = IF t < TIMER_THRESHOLD THEN @ + 1 ELSE @]

\* The operation ends: its caller gets a move back, or the exception.
Finish(status, move, o) ==
    /\ outcome' = [status |-> status, move |-> move]
    /\ obs' = o
    /\ pc' = "idle"
    /\ stack' = <<>>

\* No score function is being applied on its own.
NoScoring == [fn |-> "none"]

\* No round is being played.
NoTournament == [phase |-> "none"]

\* ---------------------------------------------------------------- Init
Init ==
    /\ rootMoves \in DistinctSeqs(Cells)
    /\ weights \in WeightTables
    /\ agent \in Agents
    /\ search_depth \in 1..MaxDepth
    /\ timeout_depths = <<>>
    /\ calls = 0
    /\ cur = [kind |-> "none", d |-> 0]
    /\ pc = "idle"
    /\ stack = <<>>
    /\ ret = <<>>
    /\ outcome = NoOutcome
    /\ obs = NoObs
    /\ average = NoAverage
    /\ scoring = NoScoring
    /\ tournament = NoTournament

\* ------------------------------------------------------------- actions
\* agent.get_move(game, time_left), up to the first clock reading.
GetMove ==
    /\ pc = "idle"
    /\ calls < MaxCalls
    /\ calls' = calls + 1
    /\ cur' = [kind |-> "get_move",
               d |-> IF agent = "MinimaxPlayer" THEN search_depth ELSE 0]
    /\ stack' = <<Frame("get_move", <<>>, 0, NegInf, PosInf)>>
    /\ IF agent = "AlphaBetaPlayer"
       THEN /\ search_depth' = StartDepth
            /\ pc' = "gm_loop"
       ELSE /\ UNCHANGED search_depth
            /\ pc' = "entry"
    /\ outcome' = NoOutcome
    /\ obs' = NoObs
    /\ ret' = <<>>
    /\ average' = NoAverage
    /\ UNCHANGED <<setting, timeout_depths>>

\* agent.minimax(game, d) or agent.alphabeta(game, d) called directly, with
\* agent.time_left set by the caller (as the unit tests do). The arguments
\* are varied one at a time: alpha and beta other than the defaults go with
\* the depth argument that equals search_depth.
Search(d) ==
    /\ pc = "idle"
    /\ calls < MaxCalls
    /\ calls' = calls + 1
    /\ cur' = [kind |-> "search", d |-> d]
    /\ stack' = <<>>
    /\ pc' = "entry"
    /\ outcome' = NoOutcome
    /\ \E w \in (IF agent = "AlphaBetaPlayer" /\ d = search_depth
                  THEN AlphaBetaWindows ELSE {DefaultWindow}) :
         obs' = [NoObs EXCEPT !.window = w]
    /\ ret' = <<>>
    /\ average' = NoAverage
    /\ UNCHANGED <<setting, search_depth, timeout_depths>>

\* AlphaBetaPlayer.get_move: one evaluation of the while condition, and the
\* loop body's first statement when it holds. The deepening is cut at
\* MaxDepth: from there on the clock reads no more than the threshold.
ABLoop ==
    /\ pc = "gm_loop"
    /\ \E t \in ClockReadings :
         LET o == [Read(obs, t) EXCEPT !.gate = t]
         IN  /\ TimeRemains(t) => search_depth < MaxDepth
             /\ IF TimeRemains(t)
                THEN /\ search_depth' = search_depth + 1
                     /\ cur' = [cur EXCEPT !.d = search_depth + 1]
                     /\ obs' = [o EXCEPT !.invoked = Append(@, search_depth + 1),
                                         !.aborted = FALSE]
                     /\ pc' = "entry"
                     /\ UNCHANGED <<stack, outcome>>
                ELSE /\ Finish("returned", Top.best_move, o)
                     /\ UNCHANGED <<search_depth, cur>>
    /\ UNCHANGED <<setting, average, timeout_depths, calls, ret>>

\* minimax / alphabeta from its entry check to the start of the root loop.
SearchEntry ==
    /\ pc = "entry"
    /\ \E t \in ClockReadings :
         LET o1 == Read(obs, t)
             actions == get_legal_moves(<<>>)
             o2 == [o1 EXCEPT !.queries = @ + 1]
         IN  IF TimedOut(t)
             THEN /\ pc' = "raise"
                  /\ obs' = [o1 EXCEPT !.signalled = @ + 1, !.aborted = TRUE]
                  /\ UNCHANGED <<stack, ret>>
             ELSE IF actions = <<>>
             THEN /\ pc' = "search_ret"
                  /\ ret' = NoMove
                  /\ obs' = o2
                  /\ UNCHANGED stack
             ELSE \E i \in 0..(Len(actions) - 1) :
                  /\ stack' = Append(stack,
                        [Frame(SearchFn, <<>>, 0, obs.window[1], obs.window[2])
                           EXCEPT !.best_move = DrawMove(actions, i),
                                  !.v = NegInf,
                                  !.todo = IF agent = "AlphaBetaPlayer"
                                           THEN sorted(actions) ELSE actions,
                                  !.st = "loop"])
                  /\ obs' = [o2 EXCEPT !.draw = i]
                  /\ pc' = "run"
                  /\ UNCHANGED ret
    /\ UNCHANGED <<setting, average, search_depth, timeout_depths, calls, cur,
                   outcome>>

\* The for loop at the root of minimax / alphabeta: the next action's call of
\* _min_value, or the final return best_move.
RootLoop ==
    /\ pc = "run"
    /\ Top.fn \in {"minimax", "alphabeta"}
    /\ IF Top.todo = <<>>
       THEN /\ ret' = Top.best_move
            /\ stack' = Pop(stack)
            /\ pc' = "search_ret"
            /\ UNCHANGED obs
       ELSE /\ stack' = Append(stack,
                Frame("_min_value", forecast_move(Top.board, Head(Top.todo)), 1,
                      Top.alpha, Top.beta))
            /\ obs' = [obs EXCEPT !.queries = @ + 1]
            /\ UNCHANGED <<ret, pc>>
    /\ UNCHANGED <<setting, average, search_depth, timeout_depths, calls, cur,
                   outcome>>

\* _min_value / _max_value on entry: self._terminal_test(game, depth), then
\* either return self.score(game, self) or set up the loop over the moves.
TerminalTest ==
    /\ pc = "run"
    /\ Top.fn \in Helpers
    /\ Top.st = "call"
    /\ \E t \in ClockReadings :
         LET o == Read(obs, t)
         IN  IF TimedOut(t)
             THEN /\ timeout_depths' = Append(timeout_depths, RecordedDepth(Top.depth))
                  /\ obs' = [o EXCEPT !.signalled = @ + 1, !.aborted = TRUE]
                  /\ pc' = "raise"
                  /\ UNCHANGED <<stack, ret>>
             ELSE IF IsTerminal(Top.board, Top.depth)
             THEN /\ ret' = <<score_fn(Top.board, ScorePlayer(Top.board))>>
                  /\ obs' = [o EXCEPT !.queries = @ + 1, !.scoreCalls = @ + 1,
                                      !.players = @ \cup {<<ScorePlayer(Top.board),
                                                            Mover(Top.board)>>}]
                  /\ pc' = "return"
                  /\ UNCHANGED <<stack, timeout_depths>>
             ELSE /\ stack' = ReplaceTop(stack,
                        [Top EXCEPT !.st = "loop",
                                    !.v = IF Top.fn = "_min_value"
                                          THEN PosInf ELSE NegInf,
                                    !.todo = get_legal_moves(Top.board)])
                  /\ obs' = [o EXCEPT !.queries = @ + 2]
                  /\ UNCHANGED <<ret, pc, timeout_depths>>
    /\ UNCHANGED <<setting, average, search_depth, calls, cur, outcome>>

\* The for loop of _min_value / _max_value: the next child's call, or return v.
HelperLoop ==
    /\ pc = "run"
    /\ Top.fn \in Helpers
    /\ Top.st = "loop"
    /\ IF Top.todo = <<>>
       THEN /\ ret' = <<Top.v>>
            /\ pc' = "return"
            /\ UNCHANGED <<stack, obs>>
       ELSE /\ stack' = Append(stack,
                Frame(Callee(Top.fn), forecast_move(Top.board, Head(Top.todo)),
                      Top.depth + 1, Top.alpha, Top.beta))
            /\ obs' = [obs EXCEPT !.queries = @ + 1]
            /\ UNCHANGED <<ret, pc>>
    /\ UNCHANGED <<setting, average, search_depth, timeout_depths, calls, cur,
                   outcome>>

\* if v >= beta: return v (AlphaBetaPlayer._max_value) and if v <= alpha:
\* return v (AlphaBetaPlayer._min_value).
CutsOffStrictly(fn, v, alpha, beta) ==
    IF fn = "_max_value" THEN v > beta ELSE v < alpha

CutsOff(fn, v, alpha, beta) ==
    IF fn = "_max_value" THEN v >= beta ELSE v <= alpha

\* What the caller's loop body does with the value its callee returned.
\* The result is the caller's frame; st = "cut" marks the early return v.
Receive(f, x) ==
    CASE f.fn = "minimax" ->
           IF x > f.v
           THEN [f EXCEPT !.v = x, !.best_move = Head(f.todo), !.todo = Tail(@)]
           ELSE [f EXCEPT !.todo = Tail(@)]
      [] f.fn = "alphabeta" ->
           IF x > f.alpha
           THEN [f EXCEPT !.alpha = x, !.best_move = Head(f.todo), !.todo = Tail(@)]
           ELSE [f EXCEPT !.todo = Tail(@)]
      [] f.fn = "_min_value" /\ agent = "MinimaxPlayer" ->
           [f EXCEPT !.v = Min2(@, x), !.todo = Tail(@)]
      [] f.fn = "_max_value" /\ agent = "MinimaxPlayer" ->
           [f EXCEPT !.v = Max2(@, x), !.todo = Tail(@)]
      [] f.fn = "_max_value" /\ agent = "AlphaBetaPlayer" ->
           LET v == Max2(f.v, x)
           IN  IF CutsOff(f.fn, v, f.alpha, f.beta)
               THEN [f EXCEPT !.v = v, !.st = "cut"]
               ELSE [f EXCEPT !.v = v, !.alpha = Max2(@, v), !.todo = Tail(@)]
      [] f.fn = "_min_value" /\ agent = "AlphaBetaPlayer" ->
           LET v == Min2(f.v, x)
           IN  IF CutsOff(f.fn, v, f.alpha, f.beta)
               THEN [f EXCEPT !.v = v, !.st = "cut"]
               ELSE [f EXCEPT !.v = v, !.beta = Min2(@, v), !.todo = Tail(@)]

\* A helper returns: its frame goes, and its caller takes the value.
Return ==
    /\ pc = "return"
    /\ LET f == Receive(stack[Len(stack) - 1], ret[1])
       IN  /\ stack' = ReplaceTop(Pop(stack), f)
           /\ IF f.st = "cut"
              THEN ret' = <<f.v>> /\ pc' = "return"
              ELSE ret' = <<>> /\ pc' = "run"
           /\ obs' = IF f.fn \in Helpers THEN obs
                     ELSE [obs EXCEPT !.scored = @ + 1]
    /\ UNCHANGED <<setting, average, search_depth, timeout_depths, calls, cur,
                   outcome>>

\* A SearchTimeout in flight leaves the top frame: a frame with an except
\* clause ends it, any other frame is abandoned.
Unwind ==
    /\ pc = "raise"
    /\ IF stack = <<>>
       THEN /\ Finish("raised", NoMove, obs)
            /\ UNCHANGED ret
       ELSE IF ~Catches(Top.fn)
       THEN /\ stack' = Pop(stack)
            /\ UNCHANGED <<pc, ret, outcome, obs>>
       ELSE IF Top.fn = "get_move"
       THEN /\ Finish("returned", Top.best_move, obs)
            /\ UNCHANGED ret
       ELSE /\ ret' = Top.best_move
            /\ stack' = Pop(stack)
            /\ pc' = "search_ret"
            /\ UNCHANGED <<outcome, obs>>
    /\ UNCHANGED <<setting, average, search_depth, timeout_depths, calls, cur>>

\* minimax / alphabeta hands its move to its caller: the code that called it
\* directly, MinimaxPlayer.get_move (which returns it), or the loop body of
\* AlphaBetaPlayer.get_move (best_move = ...).
SearchReturn ==
    /\ pc = "search_ret"
    /\ IF stack = <<>> \/ agent = "MinimaxPlayer"
       THEN /\ Finish("returned", ret, obs)
            /\ ret' = <<>>
       ELSE /\ stack' = ReplaceTop(stack, [Top EXCEPT !.best_move = ret])
            /\ obs' = [obs EXCEPT !.completed =
                          IF obs.aborted THEN @ ELSE Append(@, ret)]
            /\ ret' = <<>>
            /\ pc' = "gm_loop"
            /\ UNCHANGED outcome
    /\ UNCHANGED <<setting, average, search_depth, timeout_depths, calls, cur>>

\* agent.average_timeout_depth(), called between two moves (as tournament_mp
\* does after a game).
AverageTimeoutDepth ==
    /\ pc = "idle"
    /\ average' = average_timeout_depth
    /\ UNCHANGED <<setting, search_depth, timeout_depths, calls, cur, pc, stack, ret,
                   outcome, obs>>

\* The depth arguments tried in a direct call: search_depth itself, the
\* smallest and the largest.
DepthArguments == {1, MaxDepth} \cup ({search_depth} \ {0})

Next ==
    \/ GetMove
    \/ \E d \in DepthArguments : Search(d)
    \/ ABLoop
    \/ SearchEntry
    \/ RootLoop
    \/ TerminalTest
    \/ HelperLoop
    \/ Return
    \/ Unwind
    \/ SearchReturn
    \/ AverageTimeoutDepth

Spec == Init /\ [][Next]_vars

\* An AlphaBetaPlayer that is only ever asked for moves. The interpreter runs
\* the one thread of a call to its end: a step that can be taken is taken.
InitDeepening == Init /\ agent = "AlphaBetaPlayer"

NextDeepening ==
    \/ GetMove
    \/ ABLoop
    \/ SearchEntry
    \/ RootLoop
    \/ TerminalTest
    \/ HelperLoop
    \/ Return
    \/ Unwind
    \/ SearchReturn

\* Every step of a call changes one of these.
progress == <<calls, pc, stack, obs>>

DeepeningSpec ==
    InitDeepening /\ [][NextDeepening]_vars /\ WF_progress(NextDeepening)

\* ---------------------------------------------------------- properties
Done == pc = "idle" /\ cur.kind # "none"

GetMoveDone == Done /\ cur.kind = "get_move"

SearchDone == Done /\ cur.kind = "search"

Returned(move) == outcome.status = "returned" /\ outcome.move = move

\* The move of the last alphabeta invocation that completed normally.
LastCompleted ==
    IF obs.completed = <<>> THEN NoMove ELSE Last(obs.completed)

\* C1: a get_move (of either player, on any board) during which every clock
\* reading was below TIMER_THRESHOLD returns the sentinel (-1, -1).
C1_TimeoutGivesSentinel ==
    (GetMoveDone /\ obs.below = obs.reads) => Returned(NoMove)

C1_Witness ==
    /\ GetMoveDone
    /\ agent = "MinimaxPlayer"
    /\ rootMoves # <<>>
    /\ obs.reads >= 1
    /\ obs.below = obs.reads
    /\ Returned(NoMove)

\* C2: in AlphaBetaPlayer.get_move, best_move is at every moment the move of
\* the last alphabeta invocation that completed normally, (-1, -1) if none
\* did, and that is the move get_move returns: an invocation aborted by
\* SearchTimeout leaves it as it was.
C2_OnlyCompletedIterations ==
    (agent = "AlphaBetaPlayer" /\ cur.kind = "get_move") =>
        IF pc = "idle"
        THEN Returned(LastCompleted)
        ELSE stack[1].fn = "get_move" /\ stack[1].best_move = LastCompleted

C2_Witness ==
    /\ GetMoveDone
    /\ agent = "AlphaBetaPlayer"
    /\ Len(obs.completed) >= 1
    /\ obs.aborted
    /\ timeout_depths # <<>>
    /\ Last(timeout_depths) >= 2
    /\ Returned(Last(obs.completed))

\* The depth arguments are 1, 2, ..., n in that order.
CountsUp(invoked) == \A i \in 1..Len(invoked) : invoked[i] = i

\* C3 as claimed: an AlphaBetaPlayer.get_move that completed k >= 1 searches
\* before the clock first read below the threshold has invoked alphabeta
\* exactly k + 1 times, with depths 1, ..., k + 1.
C3_AsClaimed ==
    (GetMoveDone /\ agent = "AlphaBetaPlayer" /\ Len(obs.completed) >= 1
        /\ obs.below >= 1) =>
        /\ Len(obs.invoked) = Len(obs.completed) + 1
        /\ CountsUp(obs.invoked)

\* C3 (amended): such a get_move has invoked alphabeta with depths 1, 2, ...
\* in that order, k + 1 times when the reading below the threshold was taken
\* by a checkpoint inside alphabeta (k completions and one aborted attempt),
\* and k times when it was taken by the while condition of get_move.
C3_InvocationCount ==
    (GetMoveDone /\ agent = "AlphaBetaPlayer" /\ Len(obs.completed) >= 1
        /\ obs.below >= 1) =>
        /\ CountsUp(obs.invoked)
        /\ obs.signalled >= 1 => Len(obs.invoked) = Len(obs.completed) + 1
        /\ obs.signalled = 0 =>
              (obs.gate < TIMER_THRESHOLD /\ Len(obs.invoked) = Len(obs.completed))

C3_Witness ==
    /\ GetMoveDone
    /\ agent = "AlphaBetaPlayer"
    /\ Len(obs.completed) = 2
    /\ obs.below >= 1
    /\ obs.signalled = 1
    /\ obs.invoked = <<1, 2, 3>>

\* C4: no SearchTimeout leaves get_move: whatever the board and the clock
\* do, get_move (either player) ends by returning a move to its caller, and
\* while it runs its own frame lies under every checkpoint that can raise.
C4_GetMoveNeverRaises ==
    cur.kind = "get_move" =>
        IF pc = "idle"
        THEN /\ outcome.status = "returned"
             /\ outcome.move \in Range(rootMoves) \cup {NoMove}
        ELSE stack # <<>> /\ stack[1].fn = "get_move"

C4_Witness ==
    /\ GetMoveDone
    /\ obs.signalled >= 1
    /\ timeout_depths # <<>>
    /\ Last(timeout_depths) >= 2
    /\ outcome.status = "returned"

\* C5: minimax(game, d) / alphabeta(game, d) called directly while the clock
\* reads below TIMER_THRESHOLD raises SearchTimeout to its caller, and no
\* legal-move query, forecast or score call has been made.
C5_DirectCallRaises ==
    (cur.kind = "search" /\ obs.reads >= 1 /\ obs.below = obs.reads) =>
        /\ obs.queries = 0
        /\ obs.scoreCalls = 0
        /\ pc \in {"raise", "idle"}
        /\ pc = "idle" => outcome.status = "raised"

C5_Witness ==
    /\ SearchDone
    /\ agent = "AlphaBetaPlayer"
    /\ rootMoves # <<>>
    /\ obs.reads = 1
    /\ obs.below = 1
    /\ outcome.status = "raised"

\* ------------------------------------- minimax when the clock never runs out
\* MinimaxPlayer._min_value / _max_value with every _terminal_test passing its
\* clock check; limit is the agent's search_depth.
RECURSIVE min_value(_, _, _), max_value(_, _, _), MinLoop(_, _, _, _, _),
          MaxLoop(_, _, _, _, _)
min_value(board, depth, limit) ==
    IF depth >= limit \/ Len(get_legal_moves(board)) = 0
    THEN score(board)
    ELSE MinLoop(get_legal_moves(board), PosInf, board, depth, limit)

MinLoop(todo, v, board, depth, limit) ==
    IF todo = <<>> THEN v
    ELSE MinLoop(Tail(todo),
                 Min2(v, max_value(forecast_move(board, Head(todo)), depth + 1, limit)),
                 board, depth, limit)

max_value(board, depth, limit) ==
    IF depth >= limit \/ Len(get_legal_moves(board)) = 0
    THEN score(board)
    ELSE MaxLoop(get_legal_moves(board), NegInf, board, depth, limit)

MaxLoop(todo, v, board, depth, limit) ==
    IF todo = <<>> THEN v
    ELSE MaxLoop(Tail(todo),
                 Max2(v, min_value(forecast_move(board, Head(todo)), depth + 1, limit)),
                 board, depth, limit)

\* The for loop at the root of MinimaxPlayer.minimax.
RECURSIVE MinimaxLoop(_, _, _, _)
MinimaxLoop(todo, best_move, best_score, limit) ==
    IF todo = <<>> THEN best_move
    ELSE LET s == min_value(forecast_move(<<>>, Head(todo)), 1, limit)
         IN  IF s > best_score
             THEN MinimaxLoop(Tail(todo), Head(todo), s, limit)
             ELSE MinimaxLoop(Tail(todo), best_move, best_score, limit)

\* What minimax(game, d) returns on a MinimaxPlayer whose search_depth is
\* limit, when randint draws i: the argument d is not read.
minimax(limit, i) ==
    LET actions == get_legal_moves(<<>>)
    IN  IF actions = <<>> THEN NoMove
        ELSE MinimaxLoop(actions, DrawMove(actions, i), NegInf, limit)

\* The stepwise run of minimax and the function above agree.
MinimaxRunAgrees ==
    (agent = "MinimaxPlayer" /\ Done /\ obs.below = 0) =>
        Returned(minimax(search_depth, obs.draw))

\* -------------------------------------------- the claimed minimax decision
\* The value of a root move under MIN/MAX alternation down to ply d.
RootValue(move, d) == min_value(<<move>>, 1, d)

SetMax(S) == CHOOSE x \in S : \A y \in S : y <= x

SetMin(S) == CHOOSE x \in S : \A y \in S : x <= y

\* The first move in legal-move order whose value is the greatest; the drawn
\* move when every value is -infinity.
FirstBest(d, i) ==
    LET n == Len(rootMoves)
        best == SetMax({RootValue(rootMoves[k], d) : k \in 1..n})
    IN  IF n = 0 THEN NoMove
        ELSE IF best = NegInf THEN rootMoves[i + 1]
        ELSE rootMoves[SetMin({k \in 1..n : RootValue(rootMoves[k], d) = best})]

CleanSearch == SearchDone /\ obs.below = 0 /\ outcome.status = "returned"

\* C6: for any board, depth argument d and scorer, with no timeout, the same
\* random draw and the root's legal moves listed in ascending order,
\* alphabeta(game, d), alpha and beta left at their defaults, returns the
\* move that minimax(game, d) returns on a
\* MinimaxPlayer (whatever search_depth that player was constructed with).
C6_AlphaBetaEqualsMinimax ==
    (agent = "AlphaBetaPlayer" /\ CleanSearch /\ IsAscending(rootMoves)
        /\ obs.window = DefaultWindow) =>
        \A limit \in 1..MaxDepth : outcome.move = minimax(limit, obs.draw)

\* C7: with no timeout, minimax(game, d) returns the first move in legal-move
\* order whose minimax value to depth d is the greatest over the root moves,
\* and the drawn move only when every root move is worth -infinity.
C7_MinimaxDecision ==
    (agent = "MinimaxPlayer" /\ CleanSearch) =>
        outcome.move = FirstBest(cur.d, obs.draw)

\* With the player's search_depth in the place of the depth argument, both
\* statements hold: the pruned and the unpruned search then decide alike.
AlphaBetaEqualsMinimaxAtSearchDepth ==
    (agent = "AlphaBetaPlayer" /\ CleanSearch /\ IsAscending(rootMoves)
        /\ obs.window = DefaultWindow) =>
        outcome.move = minimax(search_depth, obs.draw)

MinimaxDecisionAtSearchDepth ==
    (agent = "MinimaxPlayer" /\ CleanSearch) =>
        outcome.move = FirstBest(search_depth, obs.draw)

\* C8 as claimed: every move returned by minimax, alphabeta or get_move for a
\* state with at least one legal move is one of that state's legal moves.
C8_AsClaimed ==
    (Done /\ outcome.status = "returned" /\ rootMoves # <<>>) =>
        outcome.move \in Range(rootMoves)

\* C8 (amended): minimax and alphabeta return a legal move of such a state;
\* get_move returns a legal move or the sentinel (-1, -1), the sentinel only
\* when the clock ended the call before any search was completed (for
\* MinimaxPlayer: the entry check of minimax timed out; for AlphaBetaPlayer:
\* no alphabeta invocation completed).
C8_LegalOrSentinel ==
    (Done /\ outcome.status = "returned" /\ rootMoves # <<>>) =>
        \/ outcome.move \in Range(rootMoves)
        \/ /\ cur.kind = "get_move"
           /\ outcome.move = NoMove
           /\ obs.completed = <<>>
           /\ agent = "MinimaxPlayer" => (obs.reads = 1 /\ obs.below = 1)
           /\ agent = "AlphaBetaPlayer" =>
                 (obs.signalled >= 1 \/ obs.gate <= TIMER_THRESHOLD)

C8_Witness ==
    /\ SearchDone
    /\ agent = "MinimaxPlayer"
    /\ outcome.status = "returned"
    /\ Len(rootMoves) >= 2
    /\ obs.below = 1
    /\ obs.scoreCalls >= 1
    /\ outcome.move \in Range(rootMoves)
    /\ outcome.move # rootMoves[obs.draw + 1]

\* C9: minimax / alphabeta entered with the clock not below the threshold on
\* a root without legal moves returns the sentinel (-1, -1) as an ordinary
\* result: nothing is raised and the score function is not called.
C9_NoMovesGivesSentinel ==
    (cur.kind = "search" /\ rootMoves = <<>> /\ obs.reads >= 1 /\ obs.below = 0) =>
        /\ obs.scoreCalls = 0
        /\ obs.signalled = 0
        /\ pc \in {"search_ret", "idle"}
        /\ pc = "idle" => Returned(NoMove)

C9_Witness ==
    /\ SearchDone
    /\ rootMoves = <<>>
    /\ obs.reads = 1
    /\ obs.below = 0
    /\ obs.queries = 1
    /\ Returned(NoMove)

HelperFrames == {i \in 1..Len(stack) : stack[i].fn \in Helpers}

\* C10: during any get_move, every _min_value/_max_value frame (each calls
\* _terminal_test once, with its own depth) has 1 <= depth <= the target depth
\* of the search in progress, the frame called from the root has depth 1, and
\* every other one has its caller's depth plus 1.
C10_DepthWithinTarget ==
    (cur.kind = "get_move" /\ pc # "idle") =>
        \A i \in HelperFrames :
            /\ 1 <= stack[i].depth
            /\ stack[i].depth <= cur.d
            /\ cur.d = search_depth
            /\ stack[i].depth = stack[i - 1].depth + 1
            /\ stack[i - 1].fn \in {"minimax", "alphabeta"} => stack[i].depth = 1

C10_Witness ==
    /\ cur.kind = "get_move"
    /\ agent = "AlphaBetaPlayer"
    /\ pc = "run"
    /\ cur.d = 3
    /\ Len(stack) = 5
    /\ Top.fn = "_min_value"
    /\ Top.st = "call"
    /\ Top.depth = 3

\* The frame whose _terminal_test has just answered "terminal": its score is
\* on the way to its caller.
JustScored == pc = "return" /\ Top.fn \in Helpers /\ Top.st = "call"

\* C11: minimax(game, d) / alphabeta(game, d) called directly searches to the
\* depth d of its argument, whatever self.search_depth holds: no node deeper
\* than ply d is visited, a node at ply d is never expanded, and a node above
\* ply d is scored only when its mover has no legal moves.
C11_DepthArgumentLimits ==
    (cur.kind = "search" /\ pc # "idle") =>
        /\ \A i \in HelperFrames :
              /\ stack[i].depth <= cur.d
              /\ stack[i].st = "loop" => stack[i].depth < cur.d
        /\ JustScored =>
              (Top.depth = cur.d \/ get_legal_moves(Top.board) = <<>>)

\* The best of the first n root moves, each worth what its subtree is worth
\* to the agent's search_depth: the first one, in legal-move order, to reach
\* the greatest value; the drawn move when none is worth more than -infinity.
BestOfScored(n, i) ==
    LET values == {RootValue(rootMoves[k], search_depth) : k \in 1..n}
        best == SetMax(values \cup {NegInf})
    IN  IF best = NegInf THEN rootMoves[i + 1]
        ELSE rootMoves[SetMin({k \in 1..n :
                                  RootValue(rootMoves[k], search_depth) = best})]

\* C12: MinimaxPlayer.minimax, once past its entry check on a root with legal
\* moves, returns a legal move and never raises, also when a SearchTimeout
\* strikes during the enumeration: the best of the root moves scored in full
\* before the timeout, or the drawn move; MinimaxPlayer.get_move returns that
\* same move.
C12_MinimaxKeepsBest ==
    (agent = "MinimaxPlayer" /\ Done /\ rootMoves # <<>> /\ obs.draw >= 0) =>
        /\ outcome.status = "returned"
        /\ outcome.move \in Range(rootMoves)
        /\ outcome.move = BestOfScored(obs.scored, obs.draw)

C12_Witness ==
    /\ GetMoveDone
    /\ agent = "MinimaxPlayer"
    /\ obs.signalled = 1
    /\ obs.scored >= 1
    /\ obs.scored < Len(rootMoves)
    /\ outcome.move # rootMoves[obs.draw + 1]
    /\ outcome.move = BestOfScored(obs.scored, obs.draw)

\* ------------------------------------------------ terminal nodes of a tree
\* The terminal nodes of the tree under a node, enumerated in full to ply d:
\* a node at ply d, or a node before ply d whose mover has no legal moves.
RECURSIVE TerminalNodes(_, _, _), TerminalNodesOver(_, _, _, _)
TerminalNodes(board, ply, d) ==
    IF ply >= d \/ get_legal_moves(board) = <<>> THEN 1
    ELSE TerminalNodesOver(get_legal_moves(board), board, ply, d)

TerminalNodesOver(moves, board, ply, d) ==
    IF moves = <<>> THEN 0
    ELSE TerminalNodes(forecast_move(board, Head(moves)), ply + 1, d)
         + TerminalNodesOver(Tail(moves), board, ply, d)

\* C13: with no timeout, minimax at target depth d (on a root that has legal
\* moves) calls the score function once for each terminal node of the full
\* tree to ply d and for no other node: the number of calls is the number of
\* those nodes.
C13_EvaluatorCalls ==
    (agent = "MinimaxPlayer" /\ Done /\ obs.below = 0 /\ rootMoves # <<>>) =>
        obs.scoreCalls = TerminalNodes(<<>>, 0, cur.d)

\* With the player's search_depth as the depth the count is right (get_move
\* always searches that way).
EvaluatorCallsAtSearchDepth ==
    (agent = "MinimaxPlayer" /\ Done /\ obs.below = 0 /\ rootMoves # <<>>) =>
        obs.scoreCalls = TerminalNodes(<<>>, 0, search_depth)

\* On a root without legal moves the score function is not called at all,
\* not even for the root.
EvaluatorCallsEmptyRoot ==
    (agent = "MinimaxPlayer" /\ Done /\ obs.below = 0 /\ rootMoves = <<>>) =>
        obs.scoreCalls = 0

\* ------------------------------------------------ the recorded timeouts
\* The depths recorded so far, added up from the last one back.
RECURSIVE Total(_, _)
Total(s, n) == IF n = 0 THEN 0 ELSE s[n] + Total(s, n - 1)

\* C14: average_timeout_depth() returns -1 when the agent has recorded no
\* timeout, and otherwise the arithmetic mean (the sum divided by the count)
\* of all the depths recorded since it was constructed, over all its calls.
C14_AverageTimeoutDepth ==
    average # NoAverage =>
        /\ average[2] > 0
        /\ IF timeout_depths = <<>>
           THEN average[1] = 0 - average[2]
           ELSE average[1] * Len(timeout_depths)
                    = Total(timeout_depths, Len(timeout_depths)) * average[2]

C14_Witness ==
    /\ average # NoAverage
    /\ calls = 2
    /\ cur.kind = "get_move"
    /\ Len(timeout_depths) = 2
    /\ (timeout_depths[1] + timeout_depths[2]) % 2 = 1
    /\ 2 * average[1] = 3 * average[2]

\* ------------------------------------------------------ score functions
\* custom_score, custom_score_2 and custom_score_3, each applied on its own
\* to one state of a game. Floats are kept as exact quotients
\* <<numerator, denominator>> with a positive denominator in lowest terms.
RECURSIVE Gcd(_, _)
Gcd(a, b) == IF b = 0 THEN a ELSE Gcd(b, a % b)

Abs(n) == IF n < 0 THEN 0 - n ELSE n

Q(n, d) ==
    LET g == Gcd(Abs(n), d)
    IN  <<n \div g, d \div g>>

QAdd(a, b) == Q(a[1] * b[2] + b[1] * a[2], a[2] * b[2])

QSub(a, b) == Q(a[1] * b[2] - b[1] * a[2], a[2] * b[2])

QMul(a, b) == Q(a[1] * b[1], a[2] * b[2])

\* a / b for b > 0
QDiv(a, b) == Q(a[1] * b[2], a[2] * b[1])

QLess(a, b) == a[1] * b[2] < b[1] * a[2]

\* float("inf"), float("-inf") and the finite floats.
Infinite(sign) == [inf |-> sign, q |-> Q(0, 1)]

Finite(q) == [inf |-> 0, q |-> q]

\* The board of isolation.Board: 7 x 7 unless told otherwise.
width == 7

height == 7

\* A knight has at most 8 moves; number_moves / 8 relies on it.
MaxMoves == 8

\* A state, as the score functions see it: the number of legal moves of the
\* player scored (own) and of its opponent (opp), whether the player scored
\* is the one to move (active), the squares played, and where the two are.
Squares == {<<0, 0>>, <<2, 5>>, <<3, 3>>}
PlayedSpaces == {2, 24, 25, 40}
States ==
    {b \in [own : 0..MaxMoves, opp : 0..MaxMoves, active : BOOLEAN,
            played : PlayedSpaces, own_loc : Squares, opp_loc : Squares] :
        b.own_loc # b.opp_loc}

\* game.is_loser(player), game.is_winner(player): the player to move has no
\* legal move, and is the loser.
is_loser(b) == b.active /\ b.own = 0

is_winner(b) == ~b.active /\ b.opp = 0

number_moves(b, who) == Q(IF who = "player" THEN b.own ELSE b.opp, 1)

centerness(b, who) ==
    LET w == Q(width, 2)
        h == Q(height, 2)
        loc == IF who = "player" THEN b.own_loc ELSE b.opp_loc
        y == Q(loc[1], 1)
        x == Q(loc[2], 1)
    IN  QAdd(QMul(QSub(h, y), QSub(h, y)), QMul(QSub(w, x), QSub(w, x)))

completeness_of_game(b) == Q(b.played, width * height)

custom_score(b) ==
    IF is_loser(b) THEN Infinite(-1)
    ELSE IF is_winner(b) THEN Infinite(1)
    ELSE LET own_moves == QDiv(number_moves(b, "player"), Q(8, 1))
         IN  IF own_moves = Q(0, 1) THEN Infinite(-1)
    ELSE LET opp_moves == QDiv(number_moves(b, "opponent"), Q(8, 1))
         IN  IF opp_moves = Q(0, 1) THEN Infinite(1)
    ELSE LET move_ratio ==
                 QDiv(QDiv(QMul(own_moves, Q(8, 1)), QMul(opp_moves, Q(8, 1))),
                      Q(8, 1))
             centerness_max ==
                 QAdd(QMul(Q(width, 2), Q(width, 2)),
                      QMul(Q(height, 2), Q(height, 2)))
             own_centerness == QDiv(centerness(b, "player"), centerness_max)
             opp_centerness == QDiv(centerness(b, "opponent"), centerness_max)
             centerness_ratio ==
                 QDiv(QDiv(QMul(own_centerness, centerness_max),
                           QAdd(QMul(centerness_max, opp_centerness), Q(1, 10))),
                      centerness_max)
             centerness_score ==
                 IF QLess(completeness_of_game(b), Q(1, 2))
                 THEN QSub(QAdd(QMul(Q(-1, 1), own_centerness), opp_centerness),
                           centerness_ratio)
                 ELSE Q(0, 1)
         IN  Finite(QAdd(QAdd(QSub(QMul(Q(2, 1), own_moves),
                                   QMul(Q(2, 1), opp_moves)),
                              QMul(Q(2, 1), move_ratio)),
                         centerness_score))

\* centerness_score stays 0 in custom_score_2: the value computed in the
\* first half of the game goes to another name (center_score).
custom_score_2(b) ==
    IF is_loser(b) THEN Infinite(-1)
    ELSE IF is_winner(b) THEN Infinite(1)
    ELSE LET own_moves == number_moves(b, "player")
         IN  IF own_moves = Q(0, 1) THEN Infinite(-1)
    ELSE LET opp_moves == number_moves(b, "opponent")
         IN  IF opp_moves = Q(0, 1) THEN Infinite(1)
    ELSE LET move_ratio == QDiv(own_moves, opp_moves)
             centerness_score == Q(0, 1)
         IN  Finite(QAdd(QAdd(QSub(QMul(Q(2, 1), own_moves),
                                   QMul(Q(2, 1), opp_moves)),
                              QMul(Q(2, 1), move_ratio)),
                         centerness_score))

\* custom_score_3 without its two checks of the move counts.
MoveRatioOnly(b) ==
    IF is_loser(b) THEN Infinite(-1)
    ELSE IF is_winner(b) THEN Infinite(1)
    ELSE IF b.opp = 0 THEN Infinite(1)
    ELSE Finite(QDiv(number_moves(b, "player"), number_moves(b, "opponent")))

custom_score_3(b) ==
    IF is_loser(b) THEN Infinite(-1)
    ELSE IF is_winner(b) THEN Infinite(1)
    ELSE LET own_moves == number_moves(b, "player")
         IN  IF own_moves = Q(0, 1) THEN Infinite(-1)
    ELSE LET opp_moves == number_moves(b, "opponent")
         IN  IF opp_moves = Q(0, 1) THEN Infinite(1)
    ELSE Finite(QDiv(own_moves, opp_moves))

Scorers == {"custom_score", "custom_score_2", "custom_score_3"}

InitScore ==
    /\ scoring \in {[fn |-> fn, state |-> b, called |-> FALSE, value |-> Finite(Q(0, 1))] :
                       fn \in Scorers, b \in States}
    /\ rootMoves = <<>>
    /\ weights = [c \in Cells |-> 0]
    /\ agent = "MinimaxPlayer"
    /\ search_depth = 1
    /\ timeout_depths = <<>>
    /\ calls = 0
    /\ cur = [kind |-> "none", d |-> 0]
    /\ pc = "idle"
    /\ stack = <<>>
    /\ ret = <<>>
    /\ outcome = NoOutcome
    /\ obs = NoObs
    /\ average = NoAverage
    /\ tournament = NoTournament

\* score_fn(game, player)
Evaluate ==
    /\ scoring.fn \in Scorers
    /\ ~scoring.called
    /\ scoring' =
         [scoring EXCEPT
            !.called = TRUE,
            !.value = CASE scoring.fn = "custom_score" -> custom_score(scoring.state)
                        [] scoring.fn = "custom_score_2" -> custom_score_2(scoring.state)
                        [] scoring.fn = "custom_score_3" -> custom_score_3(scoring.state)]
    /\ UNCHANGED <<rootMoves, weights, agent, search_depth, timeout_depths, calls, cur,
                   pc, stack, ret, outcome, obs, average, tournament>>

NextScore == Evaluate

ScoreSpec == InitScore /\ [][NextScore]_vars

Deepening == agent = "AlphaBetaPlayer" /\ cur.kind = "get_move"

\* C16: AlphaBetaPlayer.get_move returns only after a clock reading that is
\* not above the threshold (taken by its while condition, or by a checkpoint
\* that then raised); as long as the readings of its while condition exceed
\* the threshold and no checkpoint has raised, it has not returned and has
\* invoked alphabeta with the depths 1, 2, 3, ... (whatever the root, also
\* one without legal moves or with its tree searched to the end); and once a
\* reading is below the threshold it does return.
C16_DeepensUntilTimeRunsOut ==
    /\ [](GetMoveDone /\ Deepening =>
            \/ obs.signalled >= 1
            \/ obs.gate >= 0 /\ obs.gate <= TIMER_THRESHOLD)
    /\ [](Deepening /\ obs.signalled = 0 /\ obs.gate > TIMER_THRESHOLD =>
            /\ pc # "idle"
            /\ CountsUp(obs.invoked)
            /\ Len(obs.invoked) = search_depth
            /\ Len(obs.completed) \in {search_depth - 1, search_depth})
    /\ (Deepening /\ pc # "idle" /\ obs.below >= 1) ~> GetMoveDone

C16_Witness ==
    /\ GetMoveDone
    /\ Deepening
    /\ rootMoves = <<>>
    /\ obs.invoked = <<1, 2, 3>>
    /\ obs.completed = <<NoMove, NoMove, NoMove>>
    /\ obs.reads = 7
    /\ obs.below = 1
    /\ obs.gate < TIMER_THRESHOLD

\* ------------------------------------------------ the checkpoints
\* C17: every call of the score function made during minimax or alphabeta, at
\* any ply and whoever is to move at the node, is given the searching agent
\* itself as its player, never the node's mover.
C17_ScoresForTheAgent ==
    \A call \in obs.players : call[1] = "agent"

C17_Witness ==
    /\ GetMoveDone
    /\ agent = "AlphaBetaPlayer"
    /\ obs.players = {<<"agent", "agent">>, <<"agent", "opponent">>}
    /\ obs.scoreCalls >= 3

\* A call of minimax, alphabeta, _min_value or _max_value has been entered
\* and has done nothing yet.
AtEntry == pc = "entry" \/ (pc = "run" /\ Top.fn \in Helpers /\ Top.st = "call")

\* The step raises SearchTimeout.
Signals == obs'.signalled = obs.signalled + 1 /\ pc' = "raise"

\* C18: the first thing every call of minimax, alphabeta, _min_value and
\* _max_value does, at any depth, is to read the clock; it raises
\* SearchTimeout exactly when the reading is below TIMER_THRESHOLD, and has
\* then made no legal-move query, forecast or score call for its node; on a
\* reading equal to the threshold or above it the node proceeds. Nothing
\* else raises SearchTimeout.
C18_ClockReadFirst ==
    [][IF AtEntry
       THEN /\ obs'.reads = obs.reads + 1
            /\ IF obs'.below = obs.below + 1
               THEN /\ Signals
                    /\ obs'.queries = obs.queries
                    /\ obs'.scoreCalls = obs.scoreCalls
                    /\ stack' = stack
               ELSE /\ obs'.below = obs.below
                    /\ obs'.signalled = obs.signalled
                    /\ pc' # "raise"
                    /\ obs'.queries > obs.queries
       ELSE pc # "idle" => obs'.signalled = obs.signalled]_vars

C18_Witness ==
    /\ pc = "raise"
    /\ stack # <<>>
    /\ Top.fn \in Helpers
    /\ Top.st = "call"
    /\ Top.depth = 3
    /\ obs.reads >= 4
    /\ obs.below = 1
    /\ obs.signalled = 1

\* A checkpoint raises SearchTimeout in this step.
Raises == pc # "idle" /\ obs'.signalled = obs.signalled + 1

\* C19 as claimed: every SearchTimeout raised by a checkpoint, at the entry
\* of minimax / alphabeta or in _terminal_test at any ply, appends exactly one
\* entry to timeout_depths: the depth of that checkpoint.
C19_AsClaimed ==
    [][Raises =>
          /\ Len(timeout_depths') = Len(timeout_depths) + 1
          /\ SubSeq(timeout_depths', 1, Len(timeout_depths)) = timeout_depths
          /\ pc # "entry" => Last(timeout_depths') = Top.depth]_vars

\* C19 (amended): a SearchTimeout raised in _terminal_test appends exactly one
\* entry to timeout_depths, the depth of the node tested; a SearchTimeout
\* raised by the entry check of minimax or alphabeta appends nothing; and
\* nothing else changes timeout_depths.
C19_TerminalTestRecords ==
    [][timeout_depths' =
          IF Raises /\ pc # "entry"
          THEN Append(timeout_depths, Top.depth)
          ELSE timeout_depths]_vars

C19_Witness ==
    /\ Done
    /\ calls = 2
    /\ obs.reads = 1
    /\ obs.signalled = 1
    /\ timeout_depths = <<2>>

\* C20: in a get_move, once a checkpoint has raised SearchTimeout (in
\* _min_value / _max_value at any ply) nothing is read, scored, forecast or
\* visited any more: the exception leaves one helper frame after the other,
\* none catching it, until the root loop of minimax ends with it and returns
\* its best move (MinimaxPlayer) or, passing through alphabeta as well, the
\* loop of get_move ends with it (AlphaBetaPlayer); get_move then returns.
C20_UnwindsToTheRoot ==
    [][(cur.kind = "get_move" /\ pc # "idle" /\ obs.signalled >= 1) =>
          /\ obs' = obs
          /\ timeout_depths' = timeout_depths
          /\ IF pc = "raise" /\ Top.fn \in Helpers \cup {"alphabeta"}
             THEN pc' = "raise" /\ stack' = Pop(stack)
             ELSE IF pc = "raise" /\ Top.fn = "minimax"
             THEN /\ pc' = "search_ret"
                  /\ stack' = Pop(stack)
                  /\ ret' = Top.best_move
             ELSE /\ pc \in {"raise", "search_ret"}
                  /\ Top.fn = "get_move"
                  /\ pc' = "idle"
                  /\ outcome'.status = "returned"]_vars

C20_Witness ==
    /\ cur.kind = "get_move"
    /\ pc = "raise"
    /\ Len(stack) = 2
    /\ Top.fn = "alphabeta"
    /\ Top.best_move # NoMove
    /\ obs.signalled = 1
    /\ timeout_depths # <<>>
    /\ Last(timeout_depths) = 3

\* ------------------------------------------------- the order of the visits
\* The frames of alphabeta and its helpers that are in their for loop: todo
\* holds the children still to visit, in the order of the visits.
LoopFrames ==
    {i \in 1..Len(stack) :
        stack[i].fn \in {"alphabeta", "_min_value", "_max_value"}
        /\ stack[i].st = "loop"}

\* C21: in alphabeta the children of every node, the root and every MAX and
\* MIN node below it, are visited in ascending coordinate order, whatever the
\* order in which get_legal_moves lists them (so that the pruning, the move
\* returned and the number of score calls do not depend on that order).
C21_VisitsAscending ==
    (agent = "AlphaBetaPlayer" /\ pc # "idle") =>
        \A i \in LoopFrames : IsAscending(stack[i].todo)

\* Only the root is visited in ascending order.
RootVisitsAscending ==
    (agent = "AlphaBetaPlayer" /\ pc # "idle") =>
        \A i \in LoopFrames :
            stack[i].fn = "alphabeta" => IsAscending(stack[i].todo)

\* The same three moves, score table, depth and draw: 4 score calls when
\* get_legal_moves lists the moves in ascending order, 5 in another order.
ScoreCallsFollowTheListing ==
    (agent = "AlphaBetaPlayer" /\ CleanSearch /\ search_depth = 2
        /\ obs.window = DefaultWindow
        /\ weights = [c \in Cells |-> c[1] + c[2] - 1]) =>
        /\ rootMoves = <<<<0, 2>>, <<1, 0>>, <<1, 1>>>> => obs.scoreCalls = 4
        /\ rootMoves = <<<<1, 0>>, <<0, 2>>, <<1, 1>>>> => obs.scoreCalls = 5

\* ------------------------------------------------------------- pruning
\* The score calls of minimax with no timeout, when self.search_depth is d:
\* its root loop calls _min_value for every root move, whatever d is.
MinimaxScoreCalls(d) == TerminalNodesOver(rootMoves, <<>>, 0, d)

\* A helper frame that has taken the value of at least one child.
HasVisited(f) == Len(f.todo) < Len(get_legal_moves(f.board))

FirstReading ==
    /\ agent = "AlphaBetaPlayer"
    /\ cur.kind = "get_move"
    /\ pc = "gm_loop"
    /\ obs.reads = 0
    /\ obs'.reads = 1

\* C23: if the first clock reading taken by AlphaBetaPlayer.get_move is not
\* above TIMER_THRESHOLD (below it or equal to it), get_move returns (-1, -1)
\* with no alphabeta invocation and no score call made, and timeout_depths is
\* as it was before the call.
C23_NoTimeAtTheStart ==
    [][/\ (agent = "AlphaBetaPlayer" /\ pc = "idle" /\ pc' = "gm_loop") =>
            /\ timeout_depths' = timeout_depths
            /\ obs'.reads = 0
       /\ (FirstReading /\ obs'.gate <= TIMER_THRESHOLD) =>
            /\ pc' = "idle"
            /\ outcome' = [status |-> "returned", move |-> NoMove]
            /\ obs'.invoked = <<>>
            /\ obs'.scoreCalls = 0
            /\ timeout_depths' = timeout_depths]_vars

C23_Witness ==
    /\ GetMoveDone
    /\ agent = "AlphaBetaPlayer"
    /\ obs.reads = 1
    /\ obs.gate = TIMER_THRESHOLD
    /\ Returned(NoMove)
    /\ obs.invoked = <<>>
    /\ rootMoves # <<>>
    /\ timeout_depths # <<>>

\* ------------------------------------------------------ timeout_depths
\* The step appends d to timeout_depths.
Appends(d) == timeout_depths' = Append(timeout_depths, d)

\* C24 as stated: timeout_depths is append-only, a get_move call appends at
\* most one entry, and every value appended is at least 1 and at most the
\* agent's search_depth at that moment.
C24_AsClaimed ==
    [][\/ timeout_depths' = timeout_depths
       \/ /\ pc # "idle"
          /\ obs.signalled = 0
          /\ \E d \in 1..search_depth : Appends(d)]_vars

\* C24: timeout_depths is append-only: no operation removes or rewrites an
\* entry, and a get_move call or a direct minimax / alphabeta call appends at
\* most one entry. A value d appended during get_move has
\* 1 <= d <= search_depth; one appended by a direct call has d >= 1, and
\* d <= search_depth unless search_depth is 0 (as AlphaBetaPlayer.get_move
\* leaves it when it starts with no time), where d is 1.
C24_AppendOnly ==
    [][\/ timeout_depths' = timeout_depths
       \/ /\ pc # "idle"
          /\ obs.signalled = 0
          /\ obs'.signalled = 1
          /\ \E d \in 1..Max2(1, search_depth) :
                /\ Appends(d)
                /\ (cur.kind = "get_move" \/ search_depth >= 1) =>
                      d <= search_depth]_vars

C24_Witness ==
    /\ cur.kind = "get_move"
    /\ pc = "raise"
    /\ calls = 2
    /\ search_depth = 2
    /\ Len(timeout_depths) = 2
    /\ timeout_depths[2] = search_depth
    /\ obs.signalled = 1
    /\ Len(stack) = 4

\* A direct call on an agent whose search_depth get_move left at 0.
C24_DirectCallAtZero ==
    /\ cur.kind = "search"
    /\ search_depth = 0
    /\ pc = "raise"
    /\ timeout_depths = <<1>>

\* -------------------------------------------------- search_depth itself
\* C25: AlphaBetaPlayer.get_move overwrites search_depth: it sets it to 0 on
\* entry, and from then on to its return search_depth is the number of
\* alphabeta invocations made in the call (the depth of the last iteration
\* attempted), so the value given at construction plays no part in the
\* search. MinimaxPlayer.get_move, minimax and alphabeta leave search_depth
\* and the score function as they were.
C25_SearchDepthOverwritten ==
    [][/\ (agent = "AlphaBetaPlayer" /\ pc = "idle" /\ pc' = "gm_loop") =>
            search_depth' = 0
       /\ (agent = "AlphaBetaPlayer" /\ cur'.kind = "get_move") =>
            search_depth' = Len(obs'.invoked)
       /\ (agent = "MinimaxPlayer" \/ cur'.kind = "search") =>
            search_depth' = search_depth
       /\ weights' = weights]_vars

C25_Witness ==
    /\ GetMoveDone
    /\ agent = "AlphaBetaPlayer"
    /\ calls = 2
    /\ obs.invoked = <<1, 2>>
    /\ Len(obs.completed) = 1
    /\ obs.aborted
    /\ search_depth = 2
    /\ Returned(obs.completed[1])
    /\ obs.completed[1] # NoMove

\* ------------------------------------------------- tournament_mp: rounds
\* play_round(cpu_agent, test_agents, win_counts, num_matches, ...). Players
\* are numbered: 0 is cpu_agent.player, i is test_agents[i - 1].player. The
\* opening moves drawn for a match go to every game of it unread by
\* play_round, and are left out.
MaxTestAgents == 2

MaxMatches == 1

CpuPlayer == 0

\* game.play's third result.
Terminations == {"timeout", "forfeit", "illegal move"}

\* games = sum([[(2 * i, cpu, agent, init_moves),
\*               (2 * i + 1, agent, cpu, init_moves)] for i, agent in ...], [])
RECURSIVE GamesFrom(_, _)
GamesFrom(i, n) ==
    IF i >= n THEN <<>>
    ELSE <<<<2 * i, CpuPlayer, i + 1>>, <<2 * i + 1, i + 1, CpuPlayer>>>>
         \o GamesFrom(i + 1, n)

\* The local variable games, once a match has built it.
games == tournament.games

\* The task a worker was given with index idx: _run unpacks it as
\* idx, p1, p2, moves = args[0].
TaskOf(idx) ==
    CHOOSE g \in {games[k] : k \in 1..Len(games)} : g[1] = idx

\* What _run returns first, w being the winner game.play reported.
RunResult(idx, w) == <<idx, w = TaskOf(idx)[2]>>

\* game = games[result[0]]
GameOf(result) == games[result[1] + 1]

\* winner = game[1] if result[1] else game[2]
WinnerSwapped(game, p1_won) == IF p1_won THEN game[3] ELSE game[2]

Winner(game, p1_won) == IF p1_won THEN game[2] ELSE game[3]

\* winner not in test_agents: test_agents holds Agent(player, name) tuples, to
\* which a player object is never equal.
InTestAgents(winner) == FALSE

\* play_matches: wins = {key: 0 for (key, value) in test_agents};
\* wins[agent.player] = 0, then play_round up to its loop over the matches.
InitTournament ==
    /\ \E n \in 1..MaxTestAgents, m \in 1..MaxMatches :
         tournament = [phase |-> "loop", n |-> n, num_matches |-> m,
                       match |-> 0, games |-> <<>>, pending |-> {},
                       win_counts |-> [p \in 0..n |-> 0],
                       won |-> [p \in 0..n |-> 0],
                       timeout_count |-> 0, forfeit_count |-> 0,
                       reported |-> {}]
    /\ scoring = NoScoring
    /\ rootMoves = <<>>
    /\ weights = [c \in Cells |-> 0]
    /\ agent = "MinimaxPlayer"
    /\ search_depth = 1
    /\ timeout_depths = <<>>
    /\ calls = 0
    /\ cur = [kind |-> "none", d |-> 0]
    /\ pc = "idle"
    /\ stack = <<>>
    /\ ret = <<>>
    /\ outcome = NoOutcome
    /\ obs = NoObs
    /\ average = NoAverage

others ==
    <<rootMoves, weights, agent, search_depth, timeout_depths, calls, cur, pc,
      stack, ret, outcome, obs, average, scoring>>

\* for _ in range(num_matches): the games of one more match go to the pool.
StartMatch ==
    /\ tournament.phase = "loop"
    /\ tournament.pending = {}
    /\ tournament.match < tournament.num_matches
    /\ LET new_games == GamesFrom(0, tournament.n)
       IN  tournament' =
             [tournament EXCEPT
                !.match = @ + 1,
                !.games = new_games,
                !.pending = {new_games[k][1] : k \in 1..Len(new_games)}]
    /\ UNCHANGED others

\* One result comes out of imap_unordered, whichever game finished: the
\* worker's _run for that game, and the body of the tally loop. won counts
\* the games each player has really won.
Tally ==
    /\ tournament.phase = "loop"
    /\ \E idx \in tournament.pending, term \in Terminations :
         \E w \in {TaskOf(idx)[2], TaskOf(idx)[3]} :
            LET result == RunResult(idx, w)
                game == GameOf(result)
                winner == Winner(game, result[2])
            IN  tournament' =
                  [tournament EXCEPT
                     !.pending = @ \ {idx},
                     !.win_counts[winner] = @ + 1,
                     !.won[w] = @ + 1,
                     !.timeout_count =
                        IF term = "timeout" THEN @ + 1 ELSE @,
                     !.forfeit_count =
                        IF term # "timeout" /\ ~InTestAgents(winner)
                           /\ term = "forfeit"
                        THEN @ + 1 ELSE @,
                     !.reported = @ \cup {game[2], game[3]}]
    /\ UNCHANGED others

\* return timeout_count, forfeit_count
ReturnRound ==
    /\ tournament.phase = "loop"
    /\ tournament.pending = {}
    /\ tournament.match = tournament.num_matches
    /\ tournament' = [tournament EXCEPT !.phase = "done"]
    /\ UNCHANGED others

NextTournament ==
    \/ StartMatch
    \/ Tally
    \/ ReturnRound

TournamentSpec == InitTournament /\ [][NextTournament]_vars

RECURSIVE WinsOf(_, _)
WinsOf(counts, n) == IF n = 0 THEN 0 ELSE counts[n] + WinsOf(counts, n - 1)

\* Results tallied so far in the round.
Tallied ==
    IF tournament.match = 0 THEN 0
    ELSE 2 * tournament.n * tournament.match - Cardinality(tournament.pending)

\* C26: in play_round, whatever order the results arrive in, each one is
\* attributed to the game carrying its index and the player who won that
\* game is credited with one win, nobody else with any; after play_round the
\* wins sum to 2 * num_matches * len(test_agents), and the cpu agent's wins
\* are the sum over the test agents of (2 * num_matches - the agent's wins).
C26_WinsTallied ==
    tournament.phase # "none" =>
        /\ tournament.win_counts = tournament.won
        /\ tournament.win_counts[CpuPlayer]
              + WinsOf(tournament.win_counts, tournament.n) = Tallied
        /\ tournament.phase = "done" =>
              /\ tournament.win_counts[CpuPlayer]
                    + WinsOf(tournament.win_counts, tournament.n)
                    = 2 * tournament.num_matches * tournament.n
              /\ tournament.win_counts[CpuPlayer]
                    = 2 * tournament.num_matches * tournament.n
                         - WinsOf(tournament.win_counts, tournament.n)
              /\ \A p \in 1..tournament.n :
                    tournament.win_counts[p] <= 2 * tournament.num_matches

C26_Witness ==
    /\ tournament.phase = "done"
    /\ tournament.n = 2
    /\ tournament.num_matches = MaxMatches
    /\ tournament.match = MaxMatches
    /\ tournament.win_counts[1] = 2 * MaxMatches
    /\ tournament.win_counts[2] = 0
    /\ tournament.win_counts[CpuPlayer] = 2 * MaxMatches

\* A MAX node cutting off on v >= beta.
MaxNodeCutsOff ==
    /\ agent = "AlphaBetaPlayer"
    /\ pc = "return"
    /\ stack # <<>>
    /\ Top.fn = "_max_value"
    /\ Top.st = "cut"
    /\ Top.v >= Top.beta

====
